---- MODULE Spec2Model ----
(***************************************************************************)
(* ResonanceDB native comparison kernel (compare.c).                       *)
(*                                                                         *)
(* Numbers.  The kernel works on C floats.  The model keeps arithmetic     *)
(* exact: amplitudes and energies are integers, phases are integers in     *)
(* units of a quarter turn (pi/2), so that cosf and sinf are exact, and a  *)
(* score, which holds a square root, is the exact real  s * sqrt(n / d)    *)
(* kept as the record [s, n, d].  Rounding and the error of the vector     *)
(* trig evaluator are outside the model.                                   *)
(***************************************************************************)
EXTENDS Integers, Sequences, FiniteSets, TLC

(* ------------------------------ constants ------------------------------ *)

\* 1e-20f.  Every energy of the model is an integer, and 1e-20 lies strictly
\* between 0 and 1, so  x <= MIN_ENERGY  is  x <= 0  and  x > MIN_ENERGY  is
\* x > 0  on the model's values.
MIN_ENERGY == 0

MAX_LEN == 16777216

MAX_COUNT == 16777216

\* "const int step = 8": the number of float lanes of a __m256.
step == 8

\* (float)M_PI in quarter turns.
pi == 2

twoPi == 2 * pi

\* "if (count >= 64)" of the omp parallel for.
OMP_IF_COUNT == 64

(* --------------------------- exact real values -------------------------- *)

RECURSIVE GCD(_, _)
GCD(a, b) == IF b = 0 THEN a ELSE GCD(b, a % b)

Sign(x) == IF x > 0 THEN 1 ELSE IF x < 0 THEN -1 ELSE 0

\* 0.0f
Zero == [s |-> 0, n |-> 0, d |-> 1]

One == [s |-> 1, n |-> 1, d |-> 1]

\* The real  s * sqrt(n / d)  (n >= 0, d > 0) in lowest terms.
Real(s, n, d) ==
    IF s = 0 \/ n = 0 THEN Zero
    ELSE LET g == GCD(n, d) IN [s |-> s, n |-> n \div g, d |-> d \div g]

\* x / y for integers x and y > 0.
Ratio(x, y) == Real(Sign(x), x * x, y * y)

\* sqrtf(x) / y for integers x >= 0 and y > 0.
SqrtOver(x, y) == Real(1, x, y * y)

\* u * v
Times(u, v) == Real(u.s * v.s, u.n * v.n, u.d * v.d)

\* u <= v for u, v >= 0
Leq(u, v) == u.n * v.d <= v.n * u.d

\* The mean x / y (y > 0) of integer phase deltas, in lowest terms.
Mean(x, y) ==
    LET g == GCD(IF x < 0 THEN -x ELSE x, y) IN [n |-> x \div g, d |-> y \div g]

(* ---------------------------- trigonometry ------------------------------ *)

\* cosf of x quarter turns.
cosf(x) == CASE x % 4 = 0 -> 1
             [] x % 4 = 2 -> -1
             [] OTHER     -> 0

\* sine of x quarter turns.
sinf(x) == CASE x % 4 = 1 -> 1
             [] x % 4 = 3 -> -1
             [] OTHER     -> 0

RECURSIVE wrap_up(_)
wrap_up(x) == IF x <= -pi THEN wrap_up(x + twoPi) ELSE x

RECURSIVE wrap_down(_)
wrap_down(x) == IF x > pi THEN wrap_down(x - twoPi) ELSE x

\* while (x <= -pi) x += twoPi;  while (x > pi) x -= twoPi;
wrap_pi(x) == wrap_down(wrap_up(x))

(* --------------------------- __m256 vectors ----------------------------- *)

Lanes == 1 .. step

setzero_ps == [l \in Lanes |-> 0]

set1_ps(x) == [l \in Lanes |-> x]

\* _mm256_loadu_ps(buf + i): the step floats at C indices i .. i+step-1
\* (TLA+ sequences start at 1).
loadu_ps(buf, i) == [l \in Lanes |-> buf[i + l]]

add_ps(u, v) == [l \in Lanes |-> u[l] + v[l]]

sub_ps(u, v) == [l \in Lanes |-> u[l] - v[l]]

mul_ps(u, v) == [l \in Lanes |-> u[l] * v[l]]

\* _mm256_fmadd_ps(a, b, c) = a * b + c, lane by lane.
fmadd_ps(a, b, c) == [l \in Lanes |-> a[l] * b[l] + c[l]]

\* _mm256_and_ps(mask, v): v in the lanes where the comparison held, else 0.
and_ps(mask, v) == [l \in Lanes |-> IF mask[l] THEN v[l] ELSE 0]

\* _mm256_cmp_ps(u, v, _CMP_GT_OS)
cmp_gt(u, v) == [l \in Lanes |-> u[l] > v[l]]

\* _mm256_cmp_ps(u, v, _CMP_LT_OS)
cmp_lt(u, v) == [l \in Lanes |-> u[l] < v[l]]

\* Sleef_sincosf8_u35avx2: .x the sines, .y the cosines.
Sleef_sincosf8(v) == [x |-> [l \in Lanes |-> sinf(v[l])],
                      y |-> [l \in Lanes |-> cosf(v[l])]]

\* Sleef_cosf8_u10avx2
Sleef_cosf8(v) == [l \in Lanes |-> cosf(v[l])]

\* Horizontal sum of the eight lanes.
hsum256_ps(v) == v[1] + v[2] + v[3] + v[4] + v[5] + v[6] + v[7] + v[8]

(* ------------------------ the final score formula ----------------------- *)

\* Which branch of the final formula a triple (EA, EB, cross) takes.
Branch(EA, EB) ==
    IF EA + EB <= MIN_ENERGY THEN "degenerate"
    ELSE IF EA > MIN_ENERGY /\ EB > MIN_ENERGY THEN "balanced"
    ELSE "unbalanced"

\* Faulty variant: the score without the amplitude-balance factor.
AmpF_none(EA, EB) == One

\* ampF = (EA > MIN_ENERGY && EB > MIN_ENERGY) ? 2*sqrtf(EA*EB)/denom : 0
AmpF(EA, EB) ==
    IF EA > MIN_ENERGY /\ EB > MIN_ENERGY
    THEN SqrtOver(4 * EA * EB, EA + EB)
    ELSE Zero

\* Faulty variant: the factor 0.5f left out.
Base_no_half(EA, EB, cross) == Ratio(EA + EB + 2 * cross, EA + EB)

\* base = 0.5f * (IF / denom),  IF = EA + EB + 2*cross
Base(EA, EB, cross) == Ratio(EA + EB + 2 * cross, 2 * (EA + EB))

\* denom <= MIN_ENERGY ? 0 : base * ampF
Score(EA, EB, cross) ==
    IF EA + EB <= MIN_ENERGY THEN Zero
    ELSE Times(Base(EA, EB, cross), AmpF(EA, EB))

(* ------------------- scalar kernels (no __AVX2__) ---------------------- *)

ZeroAcc == [EA |-> 0, EB |-> 0, cross |-> 0]

\* for (i = 0; i < len; ++i) { EA += ai*ai; EB += aj*aj;
\*                             cross += ai*aj*cosf(p2[i] - p1[i]); }
RECURSIVE cosdelta_loop(_, _, _, _, _, _, _)
cosdelta_loop(a1, p1, a2, p2, len, i, acc) ==
    IF i < len
    THEN cosdelta_loop(a1, p1, a2, p2, len, i + 1,
            [EA    |-> acc.EA + a1[i + 1] * a1[i + 1],
             EB    |-> acc.EB + a2[i + 1] * a2[i + 1],
             cross |-> acc.cross
                       + a1[i + 1] * a2[i + 1] * cosf(p2[i + 1] - p1[i + 1])])
    ELSE acc

\* The accumulators of compare_scalar_cosdelta.
compare_scalar_cosdelta(a1, p1, a2, p2, len) ==
    cosdelta_loop(a1, p1, a2, p2, len, 0, ZeroAcc)

\* The loop of compare_with_delta_scalar: the three sums, dsum, and the
\* value each sample added to dsum (adds, in sample order).
RECURSIVE delta_scalar_loop(_, _, _, _, _, _, _)
delta_scalar_loop(A1, P1, A2, P2, len, i, acc) ==
    IF i < len
    THEN LET a == A1[i + 1]
             b == A2[i + 1]
             d == P2[i + 1] - P1[i + 1]
         IN  delta_scalar_loop(A1, P1, A2, P2, len, i + 1,
                [EA    |-> acc.EA + a * a,
                 EB    |-> acc.EB + b * b,
                 cross |-> acc.cross + a * b * cosf(d),
                 dsum  |-> acc.dsum + wrap_pi(d),
                 adds  |-> Append(acc.adds, wrap_pi(d))])
    ELSE acc

ZeroDeltaAcc == [EA |-> 0, EB |-> 0, cross |-> 0, dsum |-> 0, adds |-> << >>]

compare_with_delta_scalar(A1, P1, A2, P2, len) ==
    delta_scalar_loop(A1, P1, A2, P2, len, 0, ZeroDeltaAcc)

\* float EA = 0; for (i = 0; i < len; ++i) EA += ampQ[i]*ampQ[i];
RECURSIVE query_energy_scalar(_, _, _, _)
query_energy_scalar(ampQ, len, i, EA) ==
    IF i < len
    THEN query_energy_scalar(ampQ, len, i + 1, EA + ampQ[i + 1] * ampQ[i + 1])
    ELSE EA

\* The inner loop over j of the scalar batch body: EB and cross of one
\* candidate (a2, p2) against the query.
RECURSIVE cand_scalar_loop(_, _, _, _, _, _, _)
cand_scalar_loop(ampQ, phaseQ, a2, p2, len, j, acc) ==
    IF j < len
    THEN cand_scalar_loop(ampQ, phaseQ, a2, p2, len, j + 1,
            [EB    |-> acc.EB + a2[j + 1] * a2[j + 1],
             cross |-> acc.cross
                       + ampQ[j + 1] * a2[j + 1] * cosf(p2[j + 1] - phaseQ[j + 1])])
    ELSE acc

(* ----------------- compare_wave_patterns, __AVX2__ ---------------------- *)

\* for (; i <= len - step; i += step): one 8-lane block per turn.
RECURSIVE wave_blocks(_, _, _, _, _, _, _)
wave_blocks(a1, p1, a2, p2, len, i, v) ==
    IF i <= len - step
    THEN LET va1   == loadu_ps(a1, i)
             vp1   == loadu_ps(p1, i)
             va2   == loadu_ps(a2, i)
             vp2   == loadu_ps(p2, i)
             scQ   == Sleef_sincosf8(vp1)
             sc2   == Sleef_sincosf8(vp2)
             term  == fmadd_ps(sc2.y, scQ.y, mul_ps(sc2.x, scQ.x))
             vA1A2 == mul_ps(va1, va2)
         IN  wave_blocks(a1, p1, a2, p2, len, i + step,
                [EA_v |-> fmadd_ps(va1, va1, v.EA_v),
                 EB_v |-> fmadd_ps(va2, va2, v.EB_v),
                 CR_v |-> fmadd_ps(vA1A2, term, v.CR_v)])
    ELSE [i |-> i, v |-> v]

\* The accumulators of compare_wave_patterns in the __AVX2__ build: the block
\* loop, the three horizontal sums, then the scalar remainder loop.
wave_avx2(a1, p1, a2, p2, len) ==
    LET b == wave_blocks(a1, p1, a2, p2, len, 0,
                 [EA_v |-> setzero_ps, EB_v |-> setzero_ps, CR_v |-> setzero_ps])
    IN  cosdelta_loop(a1, p1, a2, p2, len, b.i,
            [EA    |-> hsum256_ps(b.v.EA_v),
             EB    |-> hsum256_ps(b.v.EB_v),
             cross |-> hsum256_ps(b.v.CR_v)])

\* EA, EB and cross as compare_wave_patterns accumulates them.
wave_acc(avx, a1, p1, a2, p2, len) ==
    IF avx THEN wave_avx2(a1, p1, a2, p2, len)
    ELSE compare_scalar_cosdelta(a1, p1, a2, p2, len)

(* --------- compare_many_flat / compare_many, __AVX2__ ------------------- *)
(* The two entry points hold the same text for the query energy (lines     *)
(* 191-206 and 314-329) and for the candidate body (lines 213-271 and      *)
(* 337-394); the operators below model both copies.                        *)

\* for (; i <= len - 2*step; i += 2*step): two 8-lane blocks of ampQ per turn.
RECURSIVE query_blocks(_, _, _, _)
query_blocks(ampQ, len, i, v) ==
    IF i <= len - 2 * step
    THEN LET va0 == loadu_ps(ampQ, i)
             va1 == loadu_ps(ampQ, i + step)
         IN  query_blocks(ampQ, len, i + 2 * step,
                [EA0 |-> fmadd_ps(va0, va0, v.EA0),
                 EA1 |-> fmadd_ps(va1, va1, v.EA1)])
    ELSE [i |-> i, v |-> v]

\* for (; i < len; ++i) { va = set1(ampQ[i]); EA_v = fmadd(va, va, EA_v); }
RECURSIVE query_tail(_, _, _, _)
query_tail(ampQ, len, i, EA_v) ==
    IF i < len
    THEN LET va == set1_ps(ampQ[i + 1])
         IN  query_tail(ampQ, len, i + 1, fmadd_ps(va, va, EA_v))
    ELSE EA_v

\* The query energy of the __AVX2__ batch entry points.
query_energy_avx2(ampQ, len) ==
    LET b    == query_blocks(ampQ, len, 0, [EA0 |-> setzero_ps, EA1 |-> setzero_ps])
        EA_v == add_ps(b.v.EA0, b.v.EA1)
    IN  hsum256_ps(query_tail(ampQ, len, b.i, EA_v))

\* EA as the batch entry points compute it once, before the candidate loop.
query_energy(avx, ampQ, len) ==
    IF avx THEN query_energy_avx2(ampQ, len)
    ELSE query_energy_scalar(ampQ, len, 0, 0)

\* for (; j <= len - 2*step; j += 2*step): two 8-lane blocks per turn.
RECURSIVE cand_blocks(_, _, _, _, _, _, _)
cand_blocks(ampQ, phaseQ, a2, p2, len, j, v) ==
    IF j <= len - 2 * step
    THEN LET va1_0  == loadu_ps(ampQ, j)
             vp1_0  == loadu_ps(phaseQ, j)
             va2_0  == loadu_ps(a2, j)
             vp2_0  == loadu_ps(p2, j)
             scQ0   == Sleef_sincosf8(vp1_0)
             sc20   == Sleef_sincosf8(vp2_0)
             term0  == fmadd_ps(sc20.y, scQ0.y, mul_ps(sc20.x, scQ0.x))
             vA1A20 == mul_ps(va1_0, va2_0)
             va1_1  == loadu_ps(ampQ, j + step)
             vp1_1  == loadu_ps(phaseQ, j + step)
             va2_1  == loadu_ps(a2, j + step)
             vp2_1  == loadu_ps(p2, j + step)
             scQ1   == Sleef_sincosf8(vp1_1)
             sc21   == Sleef_sincosf8(vp2_1)
             term1  == fmadd_ps(sc21.y, scQ1.y, mul_ps(sc21.x, scQ1.x))
             vA1A21 == mul_ps(va1_1, va2_1)
         IN  cand_blocks(ampQ, phaseQ, a2, p2, len, j + 2 * step,
                [EB0 |-> fmadd_ps(va2_0, va2_0, v.EB0),
                 CR0 |-> fmadd_ps(vA1A20, term0, v.CR0),
                 EB1 |-> fmadd_ps(va2_1, va2_1, v.EB1),
                 CR1 |-> fmadd_ps(vA1A21, term1, v.CR1)])
    ELSE [j |-> j, v |-> v]

\* for (; j < len; ++j) { EB_v = add(EB_v, set1(a2j*a2j));
\*                        CR_v = add(CR_v, set1(a1j*a2j*cosf(p2[j]-phaseQ[j]))); }
RECURSIVE cand_tail(_, _, _, _, _, _, _)
cand_tail(ampQ, phaseQ, a2, p2, len, j, v) ==
    IF j < len
    THEN LET a1j == ampQ[j + 1]
             a2j == a2[j + 1]
         IN  cand_tail(ampQ, phaseQ, a2, p2, len, j + 1,
                [EB_v |-> add_ps(v.EB_v, set1_ps(a2j * a2j)),
                 CR_v |-> add_ps(v.CR_v,
                            set1_ps(a1j * a2j * cosf(p2[j + 1] - phaseQ[j + 1])))])
    ELSE v

\* EB and cross of one candidate in the __AVX2__ batch body.
cand_avx2(ampQ, phaseQ, a2, p2, len) ==
    LET b == cand_blocks(ampQ, phaseQ, a2, p2, len, 0,
                 [EB0 |-> setzero_ps, CR0 |-> setzero_ps,
                  EB1 |-> setzero_ps, CR1 |-> setzero_ps])
        t == cand_tail(ampQ, phaseQ, a2, p2, len, b.j,
                 [EB_v |-> add_ps(b.v.EB0, b.v.EB1),
                  CR_v |-> add_ps(b.v.CR0, b.v.CR1)])
    IN  [EB |-> hsum256_ps(t.EB_v), cross |-> hsum256_ps(t.CR_v)]

\* EB and cross of one candidate as the batch body accumulates them.
cand_acc(avx, ampQ, phaseQ, a2, p2, len) ==
    IF avx THEN cand_avx2(ampQ, phaseQ, a2, p2, len)
    ELSE cand_scalar_loop(ampQ, phaseQ, a2, p2, len, 0, [EB |-> 0, cross |-> 0])

(* ---------------- compare_with_phase_delta, __AVX2__ -------------------- *)

\* d = p2 - p1 of one block, wrapped by one masked subtraction and one masked
\* addition of twoPi.
wrap_block(d) ==
    LET gt == cmp_gt(d, set1_ps(pi))
        lt == cmp_lt(d, set1_ps(-pi))
        d1 == sub_ps(d, and_ps(gt, set1_ps(twoPi)))
    IN  add_ps(d1, and_ps(lt, set1_ps(twoPi)))

\* The values of the lanes of v, in sample order.
LaneSeq(v) == [l \in 1 .. step |-> v[l]]

\* for (; i <= len - 2*step; i += 2*step): two 8-lane blocks per turn.
RECURSIVE delta_blocks(_, _, _, _, _, _, _)
delta_blocks(A1, P1, A2, P2, len, i, v) ==
    IF i <= len - 2 * step
    THEN LET a1_0   == loadu_ps(A1, i)
             a2_0   == loadu_ps(A2, i)
             p1_0   == loadu_ps(P1, i)
             p2_0   == loadu_ps(P2, i)
             d0     == sub_ps(p2_0, p1_0)
             dc0    == Sleef_cosf8(d0)
             a1a2_0 == mul_ps(a1_0, a2_0)
             w0     == wrap_block(d0)
             a1_1   == loadu_ps(A1, i + step)
             a2_1   == loadu_ps(A2, i + step)
             p1_1   == loadu_ps(P1, i + step)
             p2_1   == loadu_ps(P2, i + step)
             d1     == sub_ps(p2_1, p1_1)
             dc1    == Sleef_cosf8(d1)
             a1a2_1 == mul_ps(a1_1, a2_1)
             w1     == wrap_block(d1)
         IN  delta_blocks(A1, P1, A2, P2, len, i + 2 * step,
                [EA0  |-> fmadd_ps(a1_0, a1_0, v.EA0),
                 EB0  |-> fmadd_ps(a2_0, a2_0, v.EB0),
                 CR0  |-> fmadd_ps(a1a2_0, dc0, v.CR0),
                 EA1  |-> fmadd_ps(a1_1, a1_1, v.EA1),
                 EB1  |-> fmadd_ps(a2_1, a2_1, v.EB1),
                 CR1  |-> fmadd_ps(a1a2_1, dc1, v.CR1),
                 dsum |-> v.dsum + hsum256_ps(w0) + hsum256_ps(w1),
                 adds |-> v.adds \o LaneSeq(w0) \o LaneSeq(w1)])
    ELSE [i |-> i, v |-> v]

\* for (; i < len; ++i): the remainder samples.
RECURSIVE delta_tail(_, _, _, _, _, _, _)
delta_tail(A1, P1, A2, P2, len, i, v) ==
    IF i < len
    THEN LET a == A1[i + 1]
             b == A2[i + 1]
             d == P2[i + 1] - P1[i + 1]
         IN  delta_tail(A1, P1, A2, P2, len, i + 1,
                [EA_v |-> add_ps(v.EA_v, set1_ps(a * a)),
                 EB_v |-> add_ps(v.EB_v, set1_ps(b * b)),
                 CR_v |-> add_ps(v.CR_v, set1_ps(a * b * cosf(d))),
                 dsum |-> v.dsum + wrap_pi(d),
                 adds |-> Append(v.adds, wrap_pi(d))])
    ELSE v

\* The sums of compare_with_phase_delta in the __AVX2__ build.
delta_avx2(A1, P1, A2, P2, len) ==
    LET b == delta_blocks(A1, P1, A2, P2, len, 0,
                 [EA0 |-> setzero_ps, EB0 |-> setzero_ps, CR0 |-> setzero_ps,
                  EA1 |-> setzero_ps, EB1 |-> setzero_ps, CR1 |-> setzero_ps,
                  dsum |-> 0, adds |-> << >>])
        t == delta_tail(A1, P1, A2, P2, len, b.i,
                 [EA_v |-> add_ps(b.v.EA0, b.v.EA1),
                  EB_v |-> add_ps(b.v.EB0, b.v.EB1),
                  CR_v |-> add_ps(b.v.CR0, b.v.CR1),
                  dsum |-> b.v.dsum, adds |-> b.v.adds])
    IN  [EA    |-> hsum256_ps(t.EA_v),
         EB    |-> hsum256_ps(t.EB_v),
         cross |-> hsum256_ps(t.CR_v),
         dsum  |-> t.dsum,
         adds  |-> t.adds]

\* EA, EB, cross, dsum as compare_with_phase_delta accumulates them.
delta_acc(avx, A1, P1, A2, P2, len) ==
    IF avx THEN delta_avx2(A1, P1, A2, P2, len)
    ELSE compare_with_delta_scalar(A1, P1, A2, P2, len)

(* ------------------------------- state --------------------------------- *)

VARIABLES
    avx2,      \* the build defines __AVX2__
    omp,       \* the build defines USE_OMP
    ampQ,      \* amplitudes of the query (pattern 1): a1 / A1 / ampQ
    phaseQ,    \* phases of the query: p1 / P1 / phaseQ
    ampAll,    \* candidate amplitudes, candidate k at offset k*len
    phaseAll,  \* candidate phases, candidate k at offset k*len
    nullArgs,  \* the pointer arguments the caller passes as NULL
    nullRefs,  \* the NULL entries of ampList / phaseList: <<k, "amp" | "phase">>
    len,       \* the len argument
    count,     \* the count argument
    out,       \* the caller's score buffer of the batch entry points
    out2,      \* the caller's out[2] of compare_with_phase_delta
    ret,       \* what compare_wave_patterns returned
    pc,        \* "ready", "fanout" (inside the parallel for), "done"
    entry,     \* the entry point called
    arg,       \* the candidate a pairwise call was made on
    acc,       \* per candidate, the EA, EB and cross its score was made from
    sums,      \* the sums of compare_with_phase_delta, with what each sample
               \* added to dsum (adds)
    reads,     \* the pattern buffers the call dereferenced
    wcount,    \* per slot of out, the number of stores the call made to it
    wby,       \* per slot of out, the threads that stored to it
    EA,        \* the query energy the batch call computed before its loop
    team       \* the threads of the parallel for: [lo, hi, next]

vars == <<avx2, omp, ampQ, phaseQ, ampAll, phaseAll, nullArgs, nullRefs, len,
          count, out, out2, ret, pc, entry, arg, acc, sums, reads, wcount, wby,
          EA, team>>

\* What the call is given and never assigns.
inputs == <<avx2, omp, ampQ, phaseQ, ampAll, phaseAll, nullArgs, nullRefs, len,
            count>>

(* --------------------------- validation --------------------------------- *)

\* a2 + k*len (flat) or ampList[k] (scattered): the len floats of candidate k.
Cand(buf, k) == [i \in 1 .. len |-> buf[k * len + i]]

\* Faulty variant: the check of p2 left out.
pair_invalid_no_p2(k) ==
    \/ "ampQ" \in nullArgs
    \/ "phaseQ" \in nullArgs
    \/ "ampAll" \in nullArgs \/ <<k, "amp">> \in nullRefs
    \/ len <= 0
    \/ len > MAX_LEN

\* !a1 || !p1 || !a2 || !p2 || len <= 0 || len > (int)MAX_LEN, for the pair
\* (query, candidate k); a candidate whose reference is NULL is a NULL a2 / p2.
pair_invalid(k) ==
    \/ "ampQ" \in nullArgs
    \/ "phaseQ" \in nullArgs
    \/ "ampAll" \in nullArgs \/ <<k, "amp">> \in nullRefs
    \/ "phaseAll" \in nullArgs \/ <<k, "phase">> \in nullRefs
    \/ len <= 0
    \/ len > MAX_LEN

\* Faulty variant: the check of out left out.
batch_invalid_no_out ==
    \/ "ampQ" \in nullArgs
    \/ "phaseQ" \in nullArgs
    \/ "ampAll" \in nullArgs
    \/ "phaseAll" \in nullArgs
    \/ len <= 0
    \/ count <= 0
    \/ len > MAX_LEN
    \/ count > MAX_COUNT

\* !ampQ || !phaseQ || !ampAll || !phaseAll || !out || len <= 0 || count <= 0
\* || len > (int)MAX_LEN || count > (int)MAX_COUNT
batch_invalid ==
    \/ "ampQ" \in nullArgs
    \/ "phaseQ" \in nullArgs
    \/ "ampAll" \in nullArgs
    \/ "phaseAll" \in nullArgs
    \/ "out" \in nullArgs
    \/ len <= 0
    \/ count <= 0
    \/ len > MAX_LEN
    \/ count > MAX_COUNT

(* ------------------------- the batch loop body -------------------------- *)

\* EA, EB and cross of iteration k of the candidate loop; e is the query
\* energy computed before the loop.
body_acc(e, k) ==
    LET c == cand_acc(avx2, ampQ, phaseQ, Cand(ampAll, k), Cand(phaseAll, k), len)
    IN  [EA |-> e, EB |-> c.EB, cross |-> c.cross]

\* if (!a2 || !p2) { out[k] = 0.0f; continue; }   (compare_many only)
ref_missing(k) == <<k, "amp">> \in nullRefs \/ <<k, "phase">> \in nullRefs

\* out[k] = score of the three sums a.
store_score(st, k, a) ==
    [out    |-> [st.out EXCEPT ![k + 1] = Score(a.EA, a.EB, a.cross)],
     wcount |-> [st.wcount EXCEPT ![k + 1] = @ + 1],
     acc    |-> [st.acc EXCEPT ![k + 1] = a]]

\* Faulty variant: "continue" without the store.
store_zero_skip(st, k) == st

\* Faulty variant: out[0] = 0.0f.
store_zero_first(st, k) ==
    [out    |-> [st.out EXCEPT ![1] = Zero],
     wcount |-> [st.wcount EXCEPT ![1] = @ + 1],
     acc    |-> st.acc]

\* out[k] = 0.0f
store_zero(st, k) ==
    [out    |-> [st.out EXCEPT ![k + 1] = Zero],
     wcount |-> [st.wcount EXCEPT ![k + 1] = @ + 1],
     acc    |-> st.acc]

\* Iteration k of the candidate loop on the buffers st = [out, wcount, acc]:
\* one store to out[k].  scattered = the loop of compare_many.
loop_body(scattered, e, k, st) ==
    IF scattered /\ ref_missing(k)
    THEN store_zero(st, k)
    ELSE store_score(st, k, body_acc(e, k))

\* for (int k = lo; k < hi; ++k) run by one thread: the iterations k .. hi-1 in
\* order, the first half of the range and then, on the state s it leaves, the
\* second half.
RECURSIVE loop_seq(_, _, _, _, _)
loop_seq(scattered, e, k, hi, st) ==
    IF k >= hi THEN st
    ELSE IF hi = k + 1 THEN loop_body(scattered, e, k, st)
    ELSE CHOOSE r \in {loop_seq(scattered, e, (k + hi) \div 2, hi, s) :
                          s \in {loop_seq(scattered, e, k, (k + hi) \div 2, st)}} : TRUE

(* ------------------------------ entry points ---------------------------- *)

PatternBuffers == {"ampQ", "phaseQ", "ampAll", "phaseAll"}

\* The candidates a pairwise call can be made on.
Indices == IF count \in 1 .. Len(out) THEN 0 .. count - 1 ELSE {0}

Sums3(a) == [EA |-> a.EA, EB |-> a.EB, cross |-> a.cross]

\* The score of the three sums a.
ScoreOf(a) == Score(a.EA, a.EB, a.cross)

\* float compare_wave_patterns(a1, p1, a2, p2, len) on (query, candidate k).
compare_wave_patterns(k) ==
    /\ pc = "ready"
    /\ k \in Indices
    /\ pc' = "done"
    /\ entry' = "compare_wave_patterns"
    /\ arg' = k
    /\ IF pair_invalid(k)
       THEN /\ acc' = acc
            /\ ret' = Zero
            /\ reads' = {}
       ELSE /\ acc' = [acc EXCEPT ![k + 1] =
                          wave_acc(avx2, ampQ, phaseQ,
                                   Cand(ampAll, k), Cand(phaseAll, k), len)]
            /\ ret' = ScoreOf(acc'[k + 1])
            /\ reads' = PatternBuffers
    /\ UNCHANGED <<inputs, out, out2, sums, wcount, wby, EA, team>>

ZeroMean == [n |-> 0, d |-> 1]

\* out[0], out[1] of compare_with_phase_delta from its sums a.
delta_result(a, n) ==
    IF a.EA + a.EB > MIN_ENERGY
    THEN <<ScoreOf(a), Mean(a.dsum, n)>>
    ELSE <<Zero, ZeroMean>>

\* void compare_with_phase_delta(A1, P1, A2, P2, len, out) on (query,
\* candidate k).
compare_with_phase_delta(k) ==
    /\ pc = "ready"
    /\ k \in Indices
    /\ pc' = "done"
    /\ entry' = "compare_with_phase_delta"
    /\ arg' = k
    /\ IF "out" \in nullArgs
       THEN /\ sums' = sums
            /\ out2' = out2
            /\ reads' = {}
            /\ acc' = acc
       ELSE IF pair_invalid(k)
       THEN /\ sums' = sums
            /\ out2' = <<Zero, ZeroMean>>
            /\ reads' = {}
            /\ acc' = acc
       ELSE /\ sums' = delta_acc(avx2, ampQ, phaseQ,
                                 Cand(ampAll, k), Cand(phaseAll, k), len)
            /\ out2' = delta_result(sums', len)
            /\ reads' = PatternBuffers
            /\ acc' = [acc EXCEPT ![k + 1] = Sums3(sums')]
    /\ UNCHANGED <<inputs, out, ret, wcount, wby, EA, team>>

\* A whole batch call whose candidate loop one thread runs (count below
\* OMP_IF_COUNT, or a build without USE_OMP).
batch_call(scattered) ==
    /\ pc = "ready"
    /\ ~omp \/ batch_invalid \/ count < OMP_IF_COUNT
    /\ pc' = "done"
    /\ entry' = IF scattered THEN "compare_many" ELSE "compare_many_flat"
    /\ IF batch_invalid
       THEN /\ reads' = {}
            /\ UNCHANGED <<out, wcount, wby, acc, EA>>
       ELSE /\ EA' = query_energy(avx2, ampQ, len)
            /\ LET st == loop_seq(scattered, query_energy(avx2, ampQ, len), 0, count,
                                  [out |-> out, wcount |-> wcount, acc |-> acc])
               IN  /\ out' = st.out
                   /\ wcount' = st.wcount
                   /\ acc' = st.acc
            /\ wby' = [i \in 1 .. Len(out) |-> IF wcount'[i] > 0 THEN {1} ELSE {}]
            /\ reads' = PatternBuffers
    /\ UNCHANGED <<inputs, out2, ret, arg, sums, team>>

\* void compare_many_flat(ampQ, phaseQ, ampAll, phaseAll, len, count, out)
compare_many_flat == batch_call(FALSE)

\* void compare_many(ampQ, phaseQ, ampList, phaseList, len, count, out)
compare_many == batch_call(TRUE)

(* ----------------------- the parallel for, by thread -------------------- *)

\* n iterations over T threads, schedule(static) with no chunk size: chunks of
\* about equal size, at most one per thread; which threads take the n % T
\* longer chunks is the runtime's choice.
Sizes(T, n) ==
    {sz \in [1 .. T -> {n \div T, n \div T + 1}] :
        Cardinality({w \in 1 .. T : sz[w] = n \div T + 1}) = n % T}

RECURSIVE SumTo(_, _)
SumTo(sz, w) == IF w = 0 THEN 0 ELSE sz[w] + SumTo(sz, w - 1)

\* Faulty variant: every range but the first starts one iteration late.
TeamOf_gap(sz) ==
    [w \in DOMAIN sz |->
        [lo   |-> SumTo(sz, w - 1) + (IF w > 1 THEN 1 ELSE 0),
         hi   |-> SumTo(sz, w),
         next |-> SumTo(sz, w - 1) + (IF w > 1 THEN 1 ELSE 0)]]

\* The contiguous ranges [lo, hi) of the threads, each at its first iteration.
TeamOf(sz) ==
    [w \in DOMAIN sz |->
        [lo |-> SumTo(sz, w - 1), hi |-> SumTo(sz, w), next |-> SumTo(sz, w - 1)]]

\* Most threads a parallel region gets.
MaxThreads == 2

\* if (count >= 64): below it, or without USE_OMP, one thread runs the loop.
TeamSizes == IF omp /\ count >= OMP_IF_COUNT THEN 1 .. MaxThreads ELSE {1}

\* A well-formed batch call up to the start of its candidate loop: the
\* validation, the query energy, the fork.
fanout_begin(scattered) ==
    /\ pc = "ready"
    /\ ~batch_invalid
    /\ pc' = "fanout"
    /\ entry' = IF scattered THEN "compare_many" ELSE "compare_many_flat"
    /\ EA' = query_energy(avx2, ampQ, len)
    /\ \E T \in TeamSizes : \E sz \in Sizes(T, count) : team' = TeamOf(sz)
    /\ reads' = {"ampQ"}
    /\ UNCHANGED <<inputs, out, out2, ret, arg, acc, sums, wcount, wby>>

\* Thread w runs its next iteration.
worker_step(w) ==
    /\ pc = "fanout"
    /\ w \in DOMAIN team
    /\ team[w].next < team[w].hi
    /\ LET k  == team[w].next
           st == loop_body(entry = "compare_many", EA, k,
                           [out |-> out, wcount |-> wcount, acc |-> acc])
       IN  /\ out' = st.out
           /\ wcount' = st.wcount
           /\ acc' = st.acc
           /\ wby' = [wby EXCEPT ![k + 1] = @ \cup {w}]
    /\ team' = [team EXCEPT ![w].next = @ + 1]
    /\ reads' = PatternBuffers
    /\ UNCHANGED <<inputs, out2, ret, pc, entry, arg, sums, EA>>

\* The join at the end of the loop, and the return.
fanout_end ==
    /\ pc = "fanout"
    /\ \A w \in DOMAIN team : team[w].next = team[w].hi
    /\ pc' = "done"
    /\ UNCHANGED <<inputs, out, out2, ret, entry, arg, acc, sums, reads, wcount,
                   wby, EA, team>>

(* ------------------------------- inputs --------------------------------- *)

\* Longest pattern of a well-formed call.
MaxLen == 17

\* Largest candidate count of a call made as one step.
MaxBatch == 2

\* The pattern lengths tried: the shortest, and those next to a multiple of
\* the lane width.
Lens == {n \in 1 .. MaxLen : n <= 2 \/ n % step \in {0, 1, step - 1}} \cup {MaxLen}

\* A buffer of n floats that repeats the two values of m.
Tile(m, n) == [i \in 1 .. n |-> m[((i - 1) % 2) + 1]]

QueryAmps == {<<1, 1>>, <<1, 0>>, <<0, 0>>}

\* pi and 4.5*pi
QueryPhases == {<<2, 9>>}

CandAmps == {0, 1} \X {-1, 0, 1}

\* 0, pi and 4.5*pi: against the query phases the deltas are 0, -pi,
\* 3.5*pi, -3.5*pi and -4.5*pi.
CandPhases == {0, 2, 9} \X {0, 2, 9}

\* What the caller's buffers hold before the call.
Prior == [s |-> 1, n |-> 1, d |-> 9]

PriorMean == [n |-> 7, d |-> 1]

NoAcc == [EA |-> -1, EB |-> -1, cross |-> 0]

NoSums == [EA |-> -1, EB |-> -1, cross |-> 0, dsum |-> 0, adds |-> << >>]

Args == {"ampQ", "phaseQ", "ampAll", "phaseAll", "out"}

\* len and count values that fail the validation, and one that passes.
ProbeLens == {-1, 0, 2, MAX_LEN + 1}

ProbeCounts == {-1, 0, 1, MAX_COUNT + 1}

\* Before the call: nothing returned, nothing stored; out has cap slots.
Fresh(cap) ==
    /\ out = [i \in 1 .. cap |-> Prior]
    /\ out2 = <<Prior, PriorMean>>
    /\ ret = Prior
    /\ pc = "ready"
    /\ entry = "none"
    /\ arg = -1
    /\ acc = [i \in 1 .. cap |-> NoAcc]
    /\ sums = NoSums
    /\ reads = {}
    /\ wcount = [i \in 1 .. cap |-> 0]
    /\ wby = [i \in 1 .. cap |-> {}]
    /\ EA = -1
    /\ team = << >>

\* A well-formed call on present candidates.
InitValid ==
    /\ avx2 \in BOOLEAN
    /\ omp = FALSE
    /\ len \in Lens
    /\ count \in 1 .. MaxBatch
    /\ \E qa \in QueryAmps, qp \in QueryPhases, ca \in CandAmps, cp \in CandPhases :
          /\ ampQ = Tile(qa, len)
          /\ phaseQ = Tile(qp, len)
          /\ ampAll = Tile(ca, count * len)
          /\ phaseAll = Tile(cp, count * len)
    /\ nullArgs = {}
    /\ nullRefs = {}
    /\ Fresh(MaxBatch + 1)

\* The arguments of a batch call are malformed: a NULL pointer, or a len or
\* count that is not positive or is above its limit.
Malformed ==
    \/ nullArgs # {}
    \/ len <= 0 \/ len > MAX_LEN
    \/ count <= 0 \/ count > MAX_COUNT

\* A call with NULL arguments, or a len or count out of range.
InitMalformed ==
    /\ avx2 \in BOOLEAN
    /\ omp = FALSE
    /\ len \in ProbeLens
    /\ count \in ProbeCounts
    /\ ampQ = <<1, 1>>
    /\ phaseQ = <<0, 2>>
    /\ ampAll = <<1, 0>>
    /\ phaseAll = <<2, 9>>
    /\ nullArgs \in SUBSET Args
    /\ nullRefs = {}
    /\ Malformed
    /\ Fresh(MaxBatch + 1)

Init == InitMalformed \/ InitValid

Next ==
    \/ \E k \in 0 .. MaxBatch - 1 : compare_wave_patterns(k)
    \/ \E k \in 0 .. MaxBatch - 1 : compare_with_phase_delta(k)
    \/ compare_many_flat
    \/ compare_many

Spec == Init /\ [][Next]_vars

\* The pattern length of the calls followed thread by thread.
FanLen == 2

\* Candidate counts around the threshold of the parallel for.
FanCounts == {1, 2, OMP_IF_COUNT - 1, OMP_IF_COUNT}

\* The NULL entries of the scattered candidate list tried.
FanRefs(n) ==
    {{<<k, "amp">> : k \in {j \in 0 .. n - 1 : j % 3 = 1}} \cup {<<n - 1, "phase">>}}

\* A well-formed batch call, by thread.
InitFanout ==
    /\ avx2 \in BOOLEAN
    /\ omp \in BOOLEAN
    /\ len = FanLen
    /\ count \in FanCounts
    /\ ampQ = Tile(<<1, 1>>, len)
    /\ phaseQ = Tile(<<2, 2>>, len)
    /\ ampAll = Tile(<<1, -1>>, count * len)
    /\ phaseAll = Tile(<<2, 9>>, count * len)
    /\ nullArgs = {}
    /\ nullRefs \in FanRefs(count)
    /\ Fresh(count + 1)

NextFanout ==
    \/ fanout_begin(FALSE)
    \/ fanout_begin(TRUE)
    \/ \E w \in 1 .. MaxThreads : worker_step(w)
    \/ fanout_end

SpecFanout == InitFanout /\ [][NextFanout]_vars

(* =============================== claims ================================= *)

Done == pc = "done"

BatchEntry == entry \in {"compare_many", "compare_many_flat"}

\* The call passed its validation and ran its kernel.
Ran == Done /\ reads # {}

\* The candidates whose sums the call accumulated.
Computed == {k \in 0 .. Len(acc) - 1 : acc[k + 1] # NoAcc}

\* The score the entry point produced for candidate k.
Produced(k) ==
    CASE entry = "compare_wave_patterns"    -> ret
      [] entry = "compare_with_phase_delta" -> out2[1]
      [] OTHER                              -> out[k + 1]

\* What compare_wave_patterns returns for (query, candidate k).
wave_result(k) ==
    IF pair_invalid(k) THEN Zero
    ELSE ScoreOf(wave_acc(avx2, ampQ, phaseQ, Cand(ampAll, k), Cand(phaseAll, k), len))

\* C1 (as claimed): after a valid compare_many / compare_many_flat, every
\* out[k] whose candidate is present equals the score compare_wave_patterns
\* returns for (query, candidate k), for every len.
C1_BatchEqualsPairwise ==
    (Ran /\ BatchEntry) =>
        \A k \in 0 .. count - 1 :
            ~(entry = "compare_many" /\ ref_missing(k)) => out[k + 1] = wave_result(k)

\* The out buffer a one-thread run of the candidate loop leaves.
SequentialOut(scattered) ==
    loop_seq(scattered, query_energy(avx2, ampQ, len), 0, count,
             [out    |-> [i \in 1 .. Len(out) |-> Prior],
              wcount |-> [i \in 1 .. Len(out) |-> 0],
              acc    |-> [i \in 1 .. Len(out) |-> NoAcc]]).out

\* C2: when a batch call returns, the out buffer is the one the sequential
\* candidate loop leaves on the same inputs, whatever the number of threads,
\* the split of the iterations among them and the order of their steps.
C2_ThresholdInvariance ==
    (Done /\ BatchEntry) => out = SequentialOut(entry = "compare_many")

C2_Witness ==
    /\ Done
    /\ BatchEntry
    /\ count >= OMP_IF_COUNT
    /\ Len(team) = 2
    /\ out = SequentialOut(entry = "compare_many")

\* C3: a batch call that fails the validation (a NULL argument, len or count
\* not positive or above MAX_LEN / MAX_COUNT) stores to no slot of out: every
\* slot holds what it held before the call.
C3_BatchNoOp ==
    (Done /\ BatchEntry /\ Malformed) =>
        \A i \in 1 .. Len(out) : out[i] = Prior /\ wcount[i] = 0

C3_Witness ==
    /\ Done
    /\ BatchEntry
    /\ "out" \notin nullArgs
    /\ count > MAX_COUNT
    /\ \A i \in 1 .. Len(out) : out[i] = Prior

\* C4: after a valid compare_many, every slot whose amplitude or phase
\* reference is NULL holds 0.0, every slot 0..count-1 was stored (the batch ran
\* to its end), and every other slot holds what it holds when no reference is
\* NULL.
C4_MissingCandidate ==
    (Done /\ entry = "compare_many" /\ ~Malformed) =>
        \A k \in 0 .. count - 1 :
            /\ wcount[k + 1] = 1
            /\ ref_missing(k) => out[k + 1] = Zero
            /\ ~ref_missing(k) => out[k + 1] = SequentialOut(FALSE)[k + 1]

C4_Witness ==
    /\ Done
    /\ entry = "compare_many"
    /\ count >= OMP_IF_COUNT
    /\ ref_missing(1) /\ out[2] = Zero
    /\ ~ref_missing(2) /\ out[3] # Zero

\* C5 (as claimed): in a valid compare_with_phase_delta, the value every
\* sample adds to the phase-delta sum lies in (-pi, pi] and differs from the
\* raw delta phase2[i] - phase1[i] by a multiple of 2*pi.
C5_WrapRange ==
    (Ran /\ entry = "compare_with_phase_delta") =>
        /\ Len(sums.adds) = len
        /\ \A i \in 1 .. len :
              LET d == Cand(phaseAll, arg)[i] - phaseQ[i]
              IN  /\ -pi < sums.adds[i]
                  /\ sums.adds[i] <= pi
                  /\ (sums.adds[i] - d) % twoPi = 0

\* The arguments of a pairwise call on candidate k are malformed: one of the
\* four pattern buffers is NULL, or len is not positive or is above MAX_LEN.
PairMalformed(k) ==
    \/ nullArgs \cap PatternBuffers # {}
    \/ <<k, "amp">> \in nullRefs \/ <<k, "phase">> \in nullRefs
    \/ len <= 0 \/ len > MAX_LEN

\* C6: a pairwise call with a NULL pattern buffer, len <= 0 or len > MAX_LEN
\* returns 0.0 (compare_wave_patterns) or leaves (0.0, 0.0) in a present
\* result buffer (compare_with_phase_delta), and dereferences no pattern
\* buffer.
C6_PairwiseMalformed ==
    /\ (Done /\ entry = "compare_wave_patterns" /\ PairMalformed(arg)) =>
           ret = Zero /\ reads = {}
    /\ (Done /\ entry = "compare_with_phase_delta" /\ PairMalformed(arg)
             /\ "out" \notin nullArgs) =>
           out2 = <<Zero, ZeroMean>> /\ reads = {}

C6_Witness ==
    /\ Done
    /\ entry = "compare_with_phase_delta"
    /\ "out" \notin nullArgs
    /\ "phaseAll" \in nullArgs
    /\ len = 2
    /\ out2 = <<Zero, ZeroMean>>

\* The two samples are the same complex number.
SameSample(a1, p1, a2, p2) ==
    /\ a1 * cosf(p1) = a2 * cosf(p2)
    /\ a1 * sinf(p1) = a2 * sinf(p2)

\* 0 <= EA + EB + 2*cross <= 2*(EA + EB), the balance factor is in [0, 1] and
\* the score is in [0, 1], for the sums a and the score sc made from them.
InUnitRange(a, sc) ==
    /\ 0 <= a.EA + a.EB + 2 * a.cross
    /\ a.EA + a.EB + 2 * a.cross <= 2 * (a.EA + a.EB)
    /\ AmpF(a.EA, a.EB).s >= 0
    /\ Leq(AmpF(a.EA, a.EB), One)
    /\ sc.s >= 0
    /\ Leq(sc, One)

\* C7 (as claimed): every score is in [0, 1], and is 1 only when EA = EB and
\* the phases of the two patterns are equal sample by sample.
C7_BoundedPhasesIdentical ==
    Done =>
        \A k \in Computed :
            /\ InUnitRange(acc[k + 1], Produced(k))
            /\ Produced(k) = One =>
                  /\ acc[k + 1].EA = acc[k + 1].EB
                  /\ \A i \in 1 .. len : phaseQ[i] = Cand(phaseAll, k)[i]

\* C7 (amended): every score is in [0, 1], and is 1 only when EA = EB and the
\* two patterns hold the same complex value at every sample.
C7_Bounded ==
    Done =>
        \A k \in Computed :
            /\ InUnitRange(acc[k + 1], Produced(k))
            /\ Produced(k) = One =>
                  /\ acc[k + 1].EA = acc[k + 1].EB
                  /\ \A i \in 1 .. len :
                        SameSample(ampQ[i], phaseQ[i],
                                   Cand(ampAll, k)[i], Cand(phaseAll, k)[i])

C7_Witness ==
    /\ Done
    /\ entry = "compare_many_flat"
    /\ len > 2 * step
    /\ out[1] = One
    /\ \E i \in 1 .. len : phaseQ[i] # Cand(phaseAll, 0)[i]

\* Every amplitude of the pattern is zero.
Silent(amp) == \A i \in 1 .. len : amp[i] = 0

C9_RemainderFolding ==
    Ran =>
        CASE entry = "compare_wave_patterns" ->
                 acc[arg + 1] = compare_scalar_cosdelta(
                     ampQ, phaseQ, Cand(ampAll, arg), Cand(phaseAll, arg), len)
          [] entry = "compare_with_phase_delta" ->
                 Sums3(sums) = Sums3(compare_with_delta_scalar(
                     ampQ, phaseQ, Cand(ampAll, arg), Cand(phaseAll, arg), len))
          [] OTHER ->
                 /\ EA = query_energy_scalar(ampQ, len, 0, 0)
                 /\ \A k \in Computed :
                       LET c == cand_scalar_loop(ampQ, phaseQ, Cand(ampAll, k),
                                    Cand(phaseAll, k), len, 0, [EB |-> 0, cross |-> 0])
                       IN  acc[k + 1].EB = c.EB /\ acc[k + 1].cross = c.cross

\* The thread whose range holds iteration k.
Owner(k) == {w \in DOMAIN team : team[w].lo <= k /\ k < team[w].hi}

\* No slot is stored twice or by two threads, a slot is stored only by the
\* thread whose range holds it, nothing past out[count-1] is stored, and at
\* the return every slot 0..count-1 was stored once.
DisjointStores ==
    \A i \in 1 .. Len(out) :
        /\ wcount[i] <= 1
        /\ wcount[i] = Cardinality(wby[i])
        /\ wby[i] \subseteq Owner(i - 1)
        /\ i > count => wcount[i] = 0 /\ out[i] = Prior
        /\ (Done /\ i <= count) => wcount[i] = 1

\* A step inside the candidate loop changes one slot of out, the slot of the
\* iteration the stepping thread is at, and leaves the query, the candidates
\* and the query energy as they were.
OwnSlotOnly ==
    pc = "fanout" =>
        /\ UNCHANGED <<inputs, EA>>
        /\ \A w \in DOMAIN team :
              team'[w].next # team[w].next =>
                  \A i \in 1 .. Len(out) :
                      i # team[w].next + 1 => out'[i] = out[i] /\ wcount'[i] = wcount[i]

\* C10: during a valid batch call the thread at iteration k stores only to
\* out[k], every slot 0..count-1 is stored exactly once and by one thread,
\* nothing outside out[0..count-1] is stored, and the query, the candidates and
\* the query energy are not assigned once the loop has started.
C10_WriteDisjoint == []DisjointStores /\ [][OwnSlotOnly]_vars

C10_Witness ==
    /\ pc = "fanout"
    /\ Len(team) = 2
    /\ \A w \in DOMAIN team : team[w].lo < team[w].next /\ team[w].next < team[w].hi

====
